---------------------------- MODULE Spec2Model ----------------------------
(***************************************************************************)
(* Model of the vector similarity engine of moidvk's rust-core,            *)
(* src/lib/rust-core/src/vector_ops.rs, and of sanitize_filename of        *)
(* src/lib/rust-core/src/security_utils.rs.                                *)
(*                                                                         *)
(* Numbers.  The engine takes f64 components, converts them to f32 and     *)
(* computes in f32.  A number of the model is a record                     *)
(*     [k |-> "fin", s |-> sign, m |-> mantissa, e |-> exponent]           *)
(* standing for (-1)^s * m * 2^e, or k = "inf" (signed) or k = "nan".      *)
(* An f32 value is kept canonical: m = 0 (zero, written with s = 0 and     *)
(* e = 0: the sign of a zero is not tracked, +0.0 == -0.0 in Rust), or     *)
(* 2^23 <= m < 2^24 with -149 <= e <= 104 (normal), or 0 < m < 2^23 with   *)
(* e = -149 (subnormal).  The f32 operations round to nearest, ties to     *)
(* even, as the hardware does; they are computed with integers below 2^31. *)
(***************************************************************************)
EXTENDS Integers, Sequences, FiniteSets, TLC

\* ------------------------------------------------------------------------
\* IEEE-754 binary32 arithmetic
\* ------------------------------------------------------------------------

MantBits == 24
MinExp == -149
MaxExp == 104

Fin(s, m, e) == [k |-> "fin", s |-> s, m |-> m, e |-> e]
Inf(s) == [k |-> "inf", s |-> s, m |-> 0, e |-> 0]
NaN == [k |-> "nan", s |-> 0, m |-> 0, e |-> 0]
Zero == Fin(0, 0, 0)

IsNaN(x) == x.k = "nan"
IsZero(x) == x.k = "fin" /\ x.m = 0

Max(a, b) == IF a >= b THEN a ELSE b
Min(a, b) == IF a <= b THEN a ELSE b

RECURSIVE BitLen(_)
\* Number of significant bits of m >= 0.
BitLen(m) == IF m = 0 THEN 0 ELSE 1 + BitLen(m \div 2)

\* q, one higher when the dropped part r is not zero and q is even (a
\* sticky bit).
Jam(q, r) == IF r # 0 /\ q % 2 = 0 THEN q + 1 ELSE q

\* m with its low d bits dropped, the lowest kept bit a sticky bit, for
\* 0 <= m < 2^30.
ShiftRightJam(m, d) ==
    IF d <= 0 THEN m
    ELSE IF d >= 30 THEN (IF m = 0 THEN 0 ELSE 1)
    ELSE Jam(m \div (2^d), m % (2^d))

\* The f32 (-1)^s * q * 2^e for a q that was rounded to at most MantBits
\* bits: a carry out of the mantissa renormalizes, too large an exponent
\* overflows to an infinity.
Pack(s, q, e) ==
    IF q = 0 THEN Zero
    ELSE IF q = 2^MantBits
         THEN (IF e + 1 > MaxExp THEN Inf(s) ELSE Fin(s, 2^(MantBits - 1), e + 1))
    ELSE IF e > MaxExp THEN Inf(s)
    ELSE Fin(s, q, e)

\* q with remainder r against `half`, rounded to nearest, ties to even.
RoundNearestEven(q, r, half) ==
    IF r > half \/ (r = half /\ q % 2 = 1) THEN q + 1 ELSE q

\* M of L bits at exponent e, with its low sh bits rounded away (sh > 0) or
\* moved up as far as the format allows (sh <= 0).
RoundShift(s, M, e, L, sh) ==
    IF sh <= 0
    THEN Pack(s, M * (2^Min(MantBits - L, e - MinExp)),
              e - Min(MantBits - L, e - MinExp))
    ELSE IF sh > L + 1 THEN Zero
    ELSE IF sh > L THEN Pack(s, RoundNearestEven(0, M, 2^(sh - 1)), e + sh)
    ELSE Pack(s, RoundNearestEven(M \div (2^sh), M % (2^sh), 2^(sh - 1)), e + sh)

\* RoundPack for an M of L > 0 bits.
RoundWidth(s, M, e, L) == RoundShift(s, M, e, L, Max(L - MantBits, MinExp - e))

\* The f32 nearest to (-1)^s * M * 2^e (ties to even), 0 <= M < 2^30.  When
\* the lowest bit of M is a sticky bit at least two bits lie below the
\* rounding position, so it only breaks ties.
RoundPack(s, M, e) == IF M = 0 THEN Zero ELSE RoundWidth(s, M, e, BitLen(M))

\* `x as f32` for an f64 x (f64 inputs of the model have mantissas below
\* 2^30): round to nearest; out of range becomes an infinity, too small a
\* zero.
ToF32(x) == IF x.k = "fin" THEN RoundPack(x.s, x.m, x.e) ELSE x

\* The sum of a larger and a smaller operand, both of 27 bits, rounded once.
AddAligned(sb, Mb, Eb, ss, Ms, Es) ==
    RoundPack(sb,
              IF sb = ss THEN Mb + ShiftRightJam(Ms, Eb - Es)
              ELSE Mb - ShiftRightJam(Ms, Eb - Es),
              Eb)

\* The sum of two operands of 27 bits: the larger magnitude goes first.
AddOrdered(s1, M1, E1, s2, M2, E2) ==
    IF E1 > E2 \/ (E1 = E2 /\ M1 >= M2)
    THEN AddAligned(s1, M1, E1, s2, M2, E2)
    ELSE AddAligned(s2, M2, E2, s1, M1, E1)

\* The sum of two nonzero operands, n1 and n2 the shifts that bring their
\* mantissas to 27 bits (24 bits and three guard bits).
AddNormalized(s1, m1, e1, n1, s2, m2, e2, n2) ==
    AddOrdered(s1, m1 * (2^n1), e1 - n1, s2, m2 * (2^n2), e2 - n2)

\* The exact sum of two finite dyadic numbers with mantissas below 2^24,
\* rounded once to f32.
AddRound(s1, m1, e1, s2, m2, e2) ==
    IF m1 = 0 THEN RoundPack(s2, m2, e2)
    ELSE IF m2 = 0 THEN RoundPack(s1, m1, e1)
    ELSE AddNormalized(s1, m1, e1, 27 - BitLen(m1), s2, m2, e2, 27 - BitLen(m2))

\* x + y in f32.
F32Add(x, y) ==
    IF IsNaN(x) \/ IsNaN(y) THEN NaN
    ELSE IF x.k = "inf" THEN (IF y.k = "inf" /\ y.s # x.s THEN NaN ELSE x)
    ELSE IF y.k = "inf" THEN y
    ELSE AddRound(x.s, x.m, x.e, y.s, y.m, y.e)

Neg(x) == IF x.k = "nan" \/ IsZero(x) THEN x ELSE [x EXCEPT !.s = 1 - x.s]
Abs(x) == IF x.k = "nan" THEN x ELSE [x EXCEPT !.s = 0]

\* x - y in f32.
F32Sub(x, y) == F32Add(x, Neg(y))

\* <<hi, lo>> of the value hi * 2^24 + lo, lo brought below 2^24.
Carry(hi, lo) == <<hi + (lo \div (2^24)), lo % (2^24)>>

\* The limbs a1*2^12 + a0 times b1*2^12 + b0, given the middle term.
MulLimbs(a1, a0, b1, b0, mid) ==
    Carry(a1 * b1 + (mid \div 4096), a0 * b0 + (mid % 4096) * 4096)

\* The 48-bit product of two mantissas below 2^24, by 12-bit limbs, as
\* <<hi, lo>> with value hi * 2^24 + lo.
MulWide(a, b) ==
    MulLimbs(a \div 4096, a % 4096, b \div 4096, b % 4096,
             (a \div 4096) * (b % 4096) + (a % 4096) * (b \div 4096))

\* The product <<hi, lo>> of two 24-bit mantissas cut to its 30 high bits
\* and a sticky bit, rounded at exponent e.
MulRound(s, p, e) ==
    RoundPack(s, Jam(p[1] * 64 + (p[2] \div (2^18)), p[2] % (2^18)), e + 18)

\* The product of two nonzero operands, nx and ny the shifts that bring
\* their mantissas to 24 bits.
MulNormalized(s, mx, ex, nx, my, ey, ny) ==
    MulRound(s, MulWide(mx * (2^nx), my * (2^ny)), (ex - nx) + (ey - ny))

\* x * y in f32.
F32Mul(x, y) ==
    IF IsNaN(x) \/ IsNaN(y) THEN NaN
    ELSE IF x.k = "inf" \/ y.k = "inf"
         THEN (IF IsZero(x) \/ IsZero(y) THEN NaN
               ELSE Inf(IF x.s = y.s THEN 0 ELSE 1))
    ELSE IF x.m = 0 \/ y.m = 0 THEN Zero
    ELSE MulNormalized(IF x.s = y.s THEN 0 ELSE 1,
                       x.m, x.e, MantBits - BitLen(x.m),
                       y.m, y.e, MantBits - BitLen(y.m))

RECURSIVE OddPart(_)
\* m without its trailing zero bits (m > 0).
OddPart(m) == IF m % 2 = 1 THEN m ELSE OddPart(m \div 2)

RECURSIVE TrailingZeros(_)
TrailingZeros(m) == IF m % 2 = 1 THEN 0 ELSE 1 + TrailingZeros(m \div 2)

\* fma(x, y, z) = x * y + z with a single rounding (_mm256_fmadd_ps, per
\* lane).  The product is formed exactly; this needs the odd parts of the
\* two mantissas to multiply to less than 2^24, which holds for every
\* component the model draws.
F32Fma(x, y, z) ==
    IF IsNaN(x) \/ IsNaN(y) \/ IsNaN(z) THEN NaN
    ELSE IF x.k = "inf" \/ y.k = "inf"
         THEN (IF IsZero(x) \/ IsZero(y) THEN NaN
               ELSE IF z.k = "inf" /\ z.s # (IF x.s = y.s THEN 0 ELSE 1) THEN NaN
               ELSE Inf(IF x.s = y.s THEN 0 ELSE 1))
    ELSE IF z.k = "inf" THEN z
    ELSE IF x.m = 0 \/ y.m = 0 THEN z
    ELSE AddRound(IF x.s = y.s THEN 0 ELSE 1,
                  OddPart(x.m) * OddPart(y.m),
                  x.e + y.e + TrailingZeros(x.m) + TrailingZeros(y.m),
                  z.s, z.m, z.e)

\* One more bit of a square root: root q, remainder r4 = 4 * r and trial
\* subtrahend t = 4 * q + 1; <<root, remainder>>.
SqrtStep(q, r4, t) == IF r4 >= t THEN <<2 * q + 1, r4 - t>> ELSE <<2 * q, r4>>

RECURSIVE ISqrtRem(_)
\* <<q, r>> with q = floor(sqrt(n)) and r = n - q*q, bit pair by bit pair.
ISqrtRem(n) ==
    IF n = 0 THEN <<0, 0>>
    ELSE (LET p == ISqrtRem(n \div 4)
          IN SqrtStep(p[1], 4 * p[2] + (n % 4), 4 * p[1] + 1))

RECURSIVE SqrtExtend(_, _)
\* k more result bits of the square root p = <<q, r>>, the radicand
\* continuing with zeros.
SqrtExtend(p, k) ==
    IF k = 0 THEN p
    ELSE SqrtExtend(SqrtStep(p[1], 4 * p[2], 4 * p[1] + 1), k - 1)

\* <<q, r>> as a mantissa with a sticky bit.
WithSticky(w) == 2 * w[1] + (IF w[2] # 0 THEN 1 ELSE 0)

\* The square root of m1 * 2^e1 for a 24-bit m1: the exponent is made
\* even, the root is taken to 27 bits.
SqrtNormalized(m1, e1) ==
    IF e1 % 2 # 0
    THEN RoundPack(0, WithSticky(SqrtExtend(ISqrtRem(2 * m1), 14)), ((e1 - 1) \div 2) - 15)
    ELSE RoundPack(0, WithSticky(SqrtExtend(ISqrtRem(m1), 14)), (e1 \div 2) - 15)

\* The square root of m * 2^e, n the shift that brings m to 24 bits.
SqrtShifted(m, e, n) == SqrtNormalized(m * (2^n), e - n)

\* x.sqrt() in f32.
F32Sqrt(x) ==
    IF IsNaN(x) THEN NaN
    ELSE IF IsZero(x) THEN x
    ELSE IF x.s = 1 THEN NaN
    ELSE IF x.k = "inf" THEN x
    ELSE SqrtShifted(x.m, x.e, MantBits - BitLen(x.m))

RECURSIVE DivExtend(_, _, _, _)
\* k more quotient bits of r / d by long division.
DivExtend(q, r, d, k) ==
    IF k = 0 THEN <<q, r>>
    ELSE IF 2 * r >= d THEN DivExtend(2 * q + 1, 2 * r - d, d, k - 1)
    ELSE DivExtend(2 * q, 2 * r, d, k - 1)

\* mx * 2^ex / (my * 2^ey) for 24-bit mantissas: 27 further quotient bits
\* and a sticky bit.
DivNormalized(s, mx, ex, my, ey) ==
    RoundPack(s, WithSticky(DivExtend(mx \div my, mx % my, my, 27)), ex - ey - 28)

\* The quotient of two nonzero operands, nx and ny the shifts that bring
\* their mantissas to 24 bits.
DivShifted(s, mx, ex, nx, my, ey, ny) ==
    DivNormalized(s, mx * (2^nx), ex - nx, my * (2^ny), ey - ny)

\* x / y in f32.
F32Div(x, y) ==
    IF IsNaN(x) \/ IsNaN(y) THEN NaN
    ELSE IF x.k = "inf"
         THEN (IF y.k = "inf" THEN NaN ELSE Inf(IF x.s = y.s THEN 0 ELSE 1))
    ELSE IF y.k = "inf" THEN Zero
    ELSE IF y.m = 0
         THEN (IF x.m = 0 THEN NaN ELSE Inf(IF x.s = y.s THEN 0 ELSE 1))
    ELSE IF x.m = 0 THEN Zero
    ELSE DivShifted(IF x.s = y.s THEN 0 ELSE 1,
                    x.m, x.e, MantBits - BitLen(x.m),
                    y.m, y.e, MantBits - BitLen(y.m))

\* |x| < |y| for finite nonzero canonical values.
MagLt(x, y) == x.e < y.e \/ (x.e = y.e /\ x.m < y.m)

\* x < y for canonical values; every comparison with a NaN is false.
F32Lt(x, y) ==
    IF IsNaN(x) \/ IsNaN(y) THEN FALSE
    ELSE IF x.k = "inf" THEN x.s = 1 /\ ~(y.k = "inf" /\ y.s = 1)
    ELSE IF y.k = "inf" THEN y.s = 0
    ELSE IF x.m = 0 THEN y.m # 0 /\ y.s = 0
    ELSE IF y.m = 0 THEN x.s = 1
    ELSE IF x.s # y.s THEN x.s = 1
    ELSE IF x.s = 0 THEN MagLt(x, y) ELSE MagLt(y, x)

\* x == y: numeric equality (false when either is a NaN).
F32Eq(x, y) == ~IsNaN(x) /\ ~IsNaN(y) /\ x = y
F32Ge(x, y) == F32Lt(y, x) \/ F32Eq(x, y)
F32Gt(x, y) == F32Lt(y, x)


\* ------------------------------------------------------------------------
\* Kernels (cosine_similarity_scalar, cosine_similarity_simd)
\* ------------------------------------------------------------------------

\* Vectors are sequences; the code's index i is position i + 1.

\* AVX2 processes 8 f32 values at once.
LaneWidth == 8

RECURSIVE SumF32(_)
\* Iterator::sum::<f32>(): a left fold of + from 0.0.
SumF32(xs) ==
    IF xs = <<>> THEN Zero
    ELSE F32Add(SumF32(SubSeq(xs, 1, Len(xs) - 1)), xs[Len(xs)])

\* A kernel ends in a value, in a panic (a bounds-checked index out of
\* range) or in undefined behaviour (an unchecked load past the end of a
\* slice).
Val(v) == [kind |-> "val", v |-> v]
KernelPanic == [kind |-> "panic", v |-> Zero]
KernelUB == [kind |-> "ub", v |-> Zero]

\* xs[i] * ys[i] for i in 1..n.
Products(xs, ys, n) == [i \in 1..n |-> F32Mul(xs[i], ys[i])]

\* sqrt(sum of x * x).
Norm(xs) == F32Sqrt(SumF32(Products(xs, xs, Len(xs))))

\* The quotient without the zero check.
QuotientUnchecked(dot_product, norm_a, norm_b) ==
    F32Div(dot_product, F32Mul(norm_a, norm_b))

\* The zero check and the quotient both kernels end with.
Quotient(dot_product, norm_a, norm_b) ==
    IF F32Eq(norm_a, Zero) \/ F32Eq(norm_b, Zero) THEN Zero
    ELSE F32Div(dot_product, F32Mul(norm_a, norm_b))

\* A quotient of the dot product by the first vector's norm alone.
cosine_similarity_by_first_norm(vec_a, vec_b) ==
    Quotient(SumF32(Products(vec_a, vec_b, Min(Len(vec_a), Len(vec_b)))),
             Norm(vec_a), Norm(vec_a))

\* Scalar implementation: zip() stops at the shorter vector, each norm runs
\* over its whole vector.
cosine_similarity_scalar(vec_a, vec_b) ==
    Quotient(SumF32(Products(vec_a, vec_b, Min(Len(vec_a), Len(vec_b)))),
             Norm(vec_a), Norm(vec_b))

RECURSIVE LaneFma(_, _, _, _)
\* Lane `lane` of an accumulator after `chunks` steps of
\* acc = _mm256_fmadd_ps(x_chunk, y_chunk, acc), from _mm256_setzero_ps().
LaneFma(xs, ys, lane, chunks) ==
    IF chunks = 0 THEN Zero
    ELSE F32Fma(xs[(chunks - 1) * LaneWidth + lane + 1],
                ys[(chunks - 1) * LaneWidth + lane + 1],
                LaneFma(xs, ys, lane, chunks - 1))

\* The accumulator register after the lane loop.
FmaRegister(xs, ys, chunks) ==
    [l \in 1..LaneWidth |-> LaneFma(xs, ys, l - 1, chunks)]

\* Helper to sum AVX register values: store, then result.iter().sum().
sum_avx_register(reg) == SumF32(reg)

RECURSIVE RemainderSum(_, _, _, _)
\* acc += xs[i] * ys[i] for i in from..to-1.
RemainderSum(xs, ys, from, to) ==
    IF from >= to THEN Zero
    ELSE F32Add(RemainderSum(xs, ys, from, to - 1), F32Mul(xs[to], ys[to]))

\* (norm_sum * norm_sum + remaining).sqrt()
TotalNorm(norm_sum, remaining) == F32Sqrt(F32Add(F32Mul(norm_sum, norm_sum), remaining))

\* The accumulation with a remainder loop that starts one index early.
LaneTotalOverlapping(xs, ys, chunks, len) ==
    <<sum_avx_register(FmaRegister(xs, ys, chunks)),
      RemainderSum(xs, ys, Max(0, chunks * LaneWidth - 1), len)>>

\* One of the three accumulations of the SIMD kernel: the lane loop, the
\* register sum, and the remainder loop's sum.
LaneTotal(xs, ys, chunks, len) ==
    <<sum_avx_register(FmaRegister(xs, ys, chunks)),
      RemainderSum(xs, ys, chunks * LaneWidth, len)>>

\* The SIMD kernel on vectors it can read: each norm's lane total goes
\* through sqrt() before the remainder is added to its square.
SimdValue(dot, na, nb) ==
    Quotient(F32Add(dot[1], dot[2]),
             TotalNorm(F32Sqrt(na[1]), na[2]),
             TotalNorm(F32Sqrt(nb[1]), nb[2]))

\* The first index the lane loop or the remainder loop reads that is not in
\* vec_b decides how a call with a shorter vec_b ends: the lane loop loads
\* through raw pointers, the remainder loop indexes with bounds checks.
cosine_similarity_simd(vec_a, vec_b) ==
    IF (Len(vec_a) \div LaneWidth) * LaneWidth > Len(vec_b) THEN KernelUB
    ELSE IF Len(vec_a) > Len(vec_b) THEN KernelPanic
    ELSE Val(SimdValue(
               LaneTotal(vec_a, vec_b, Len(vec_a) \div LaneWidth, Len(vec_a)),
               LaneTotal(vec_a, vec_a, Len(vec_a) \div LaneWidth, Len(vec_a)),
               LaneTotal(vec_b, vec_b, Len(vec_a) \div LaneWidth, Len(vec_a))))

\* Internal cosine similarity: the vectorized kernel when the configuration
\* asks for it and the CPU has AVX2, the scalar kernel otherwise.
cosine_similarity_internal(cfg, hw, vec_a, vec_b) ==
    IF cfg.use_simd /\ hw THEN cosine_similarity_simd(vec_a, vec_b)
    ELSE Val(cosine_similarity_scalar(vec_a, vec_b))

\* The norm through the scalar kernel whatever the configuration is.
vector_norm_scalar_only(cfg, hw, vector) == Norm(vector)

\* SIMD-optimized vector norm: the lanes' sum of squares, the sum of the
\* squares of the remaining elements, and the square root of their sum.  It
\* reads one slice within its length.
vector_norm_simd(vector) ==
    F32Sqrt(F32Add(
        sum_avx_register(FmaRegister(vector, vector, Len(vector) \div LaneWidth)),
        RemainderSum(vector, vector, (Len(vector) \div LaneWidth) * LaneWidth,
                     Len(vector))))

\* Internal vector norm: the same decision as cosine_similarity_internal.
vector_norm_internal(cfg, hw, vector) ==
    IF cfg.use_simd /\ hw THEN vector_norm_simd(vector)
    ELSE Norm(vector)

\* ------------------------------------------------------------------------
\* The engine: VectorOperations and its public operations
\* ------------------------------------------------------------------------

VARIABLES
    config,     \* the engine's VectorConfig
    avx2,       \* is_x86_feature_detected!("avx2") on this machine
    pc,         \* "idle" (constructed), "par" (a parallel section runs), "done"
    call,       \* the arguments of the call in progress or just returned
    jobs,       \* parallel section: each job is "todo", "done" or "panicked"
    buf,        \* parallel section: the output buffer
    computed,   \* kernel results produced so far by the call
    result,     \* how the last call ended
    kernel      \* the kernels run on their own: arguments and outcomes

vars == <<config, avx2, pc, call, jobs, buf, computed, result, kernel>>

\* The messages of the napi errors (Status::InvalidArg) the operations return.
DimensionMismatch == "Vectors must have the same length"
MalformedCollection == "Vectors array length must be a multiple of vector_size"
LabelCountMismatch == "Number of vectors and paths must match"

\* How a call ends: Ok(value), Err(message), a panic (division by zero, an
\* index out of range, unwrap on None), or undefined behaviour.
Ok(v) == [kind |-> "ok", msg |-> "", value |-> v]
Err(m) == [kind |-> "err", msg |-> m, value |-> <<>>]
Panic == [kind |-> "panic", msg |-> "", value |-> <<>>]
Undefined == [kind |-> "ub", msg |-> "", value |-> <<>>]
Abort == [kind |-> "abort", msg |-> "", value |-> <<>>]
NoResult == [kind |-> "none", msg |-> "", value |-> <<>>]

\* vec.iter().map(|&x| x as f32).collect()
ToF32Vec(v) == [i \in 1..Len(v) |-> ToF32(v[i])]

\* cosine_similarity with the empty-vector shortcut ahead of the length check.
cosine_similarity_shortcut_first(cfg, hw, vec_a, vec_b) ==
    IF vec_a = <<>> THEN Ok(Zero)
    ELSE IF Len(vec_a) # Len(vec_b) THEN Err(DimensionMismatch)
    ELSE Ok(cosine_similarity_internal(cfg, hw, ToF32Vec(vec_a), ToF32Vec(vec_b)).v)

\* cosine_similarity: the length check, the empty-vector shortcut, then the
\* kernel on the f32 copies; the f32 result widens to f64 unchanged.
cosine_similarity(cfg, hw, vec_a, vec_b) ==
    IF Len(vec_a) # Len(vec_b) THEN Err(DimensionMismatch)
    ELSE IF vec_a = <<>> THEN Ok(Zero)
    ELSE Ok(cosine_similarity_internal(cfg, hw, ToF32Vec(vec_a), ToF32Vec(vec_b)).v)

\* vectors_flat[start..end] for the i-th vector (i from 0).
Chunk(vectors_flat, vector_size, i) ==
    SubSeq(vectors_flat, i * vector_size + 1, (i + 1) * vector_size)

\* The kernel outcomes of the map closure for i in lo..hi-1, in index order.
\* The kernel is a function of its arguments: it is evaluated once per
\* distinct vector of the range.
KernelOutcomes(cfg, hw, query_f32, vectors_flat, vector_size, lo, hi) ==
    LET vecs == {Chunk(vectors_flat, vector_size, i) : i \in lo..(hi - 1)}
        K == {<<v, cosine_similarity_internal(cfg, hw, query_f32, ToF32Vec(v))>> : v \in vecs}
    IN [i \in 1..(hi - lo) |->
          (CHOOSE p \in K : p[1] = Chunk(vectors_flat, vector_size, lo + i - 1))[2]]

\* The first position of ks that is not a value, 0 when all are values.
FirstFailure(ks) ==
    IF \A i \in 1..Len(ks) : ks[i].kind = "val" THEN 0
    ELSE CHOOSE i \in 1..Len(ks) :
            /\ ks[i].kind # "val"
            /\ \A j \in 1..(i - 1) : ks[j].kind = "val"

\* A map over a range ends at its first kernel call that does not return:
\* <<outcome, number of results produced>>.
MapOutcome(ks) ==
    LET f == FirstFailure(ks)
    IN IF f = 0 THEN <<Ok([i \in 1..Len(ks) |-> ks[i].v]), Len(ks)>>
       ELSE IF ks[f].kind = "panic" THEN <<Panic, f - 1>>
       ELSE <<Undefined, f - 1>>

\* The parallel strategy is taken above these item counts.
BatchParallelThreshold == 100
PairwiseParallelThreshold == 50

\* batch_cosine_similarity up to its dispatch: "panic", an Err, Ok(<<>>), or
\* "compute" when the scores are to be computed.
BatchValidation(vectors_flat, vector_size) ==
    IF vector_size = 0 THEN Panic
    ELSE IF Len(vectors_flat) % vector_size # 0 THEN Err(MalformedCollection)
    ELSE IF Len(vectors_flat) \div vector_size = 0 THEN Ok(<<>>)
    ELSE NoResult

\* find_similar_vectors before it calls batch_cosine_similarity.
FindValidation(vectors_flat, vector_size, paths) ==
    IF vector_size = 0 THEN Panic
    ELSE IF Len(vectors_flat) \div vector_size # Len(paths) THEN Err(LabelCountMismatch)
    ELSE NoResult

\* pairwise_distances before it allocates the matrix: n is computed first.
PairwiseValidation(vectors_flat, vector_size) ==
    IF vector_size = 0 THEN Panic
    ELSE IF Len(vectors_flat) % vector_size # 0 THEN Err(MalformedCollection)
    ELSE NoResult

\* batch_cosine_similarity on its sequential path:
\* <<outcome, number of scores produced>>.
batch_sequential(cfg, hw, query_vector, vectors_flat, vector_size) ==
    LET v == BatchValidation(vectors_flat, vector_size)
    IN IF v # NoResult THEN <<v, 0>>
       ELSE MapOutcome(KernelOutcomes(cfg, hw, ToF32Vec(query_vector), vectors_flat,
                                      vector_size, 0, Len(vectors_flat) \div vector_size))

SimilarityResult(i, p, sim) == [index |-> i, path |-> p, similarity |-> sim]

\* The enumeration counting from one.
EnumerateFromOne(similarities, paths) ==
    [i \in 1..Len(similarities) |-> SimilarityResult(i, paths[i], similarities[i])]

\* similarities.into_iter().enumerate() with the path of each index.  paths
\* is indexed without a bounds problem: its length is the number of
\* similarities.
Enumerate(similarities, paths) ==
    [i \in 1..Len(similarities) |-> SimilarityResult(i - 1, paths[i], similarities[i])]

\* The filter keeping only the entries strictly above the threshold.
FilterAboveThreshold(similarities, paths, threshold) ==
    SelectSeq(Enumerate(similarities, paths),
              LAMBDA r : F32Gt(r.similarity, threshold))

\* The filter dropping only the entries that compare below the threshold.
FilterNotBelowThreshold(similarities, paths, threshold) ==
    SelectSeq(Enumerate(similarities, paths),
              LAMBDA r : ~F32Lt(r.similarity, threshold))

\* The filter_map() of find_similar_vectors: the entries at or above the
\* threshold, in index order.
FilterByThreshold(similarities, paths, threshold) ==
    SelectSeq(Enumerate(similarities, paths),
              LAMBDA r : F32Ge(r.similarity, threshold))

\* b.similarity.partial_cmp(&a.similarity): None when either is a NaN.
CmpDesc(a, b) ==
    IF IsNaN(a.similarity) \/ IsNaN(b.similarity) THEN "None"
    ELSE IF F32Lt(b.similarity, a.similarity) THEN "Less"
    ELSE IF F32Lt(a.similarity, b.similarity) THEN "Greater"
    ELSE "Equal"

RECURSIVE SortGroups(_, _)
\* The entries of rs whose similarity is in vals, the highest similarity
\* first, the entries of one similarity in the order they have in rs.
SortGroups(rs, vals) ==
    IF vals = {} THEN <<>>
    ELSE LET top == CHOOSE v \in vals : \A w \in vals : ~F32Lt(v, w)
         IN SelectSeq(rs, LAMBDA r : r.similarity = top)
            \o SortGroups(rs, vals \ {top})

\* A descending sort that leaves entries that compare Equal in the opposite
\* of the order they had.
SortBySimilarityTiesReversed(rs) ==
    SortGroups([i \in 1..Len(rs) |-> rs[Len(rs) + 1 - i]],
               {rs[i].similarity : i \in 1..Len(rs)})

\* results.sort_by(..) with the comparator CmpDesc: descending, and stable,
\* so entries that compare Equal keep their order.  (No entry is a NaN
\* here, and values that compare Equal are equal.)
SortBySimilarity(rs) ==
    SortGroups(rs, {rs[i].similarity : i \in 1..Len(rs)})

\* results.truncate(top_k)
Truncate(rs, top_k) == SubSeq(rs, 1, Min(top_k, Len(rs)))

\* find_similar_vectors after batch_cosine_similarity returned `similarities`:
\* filter, sort (the comparator unwraps: a NaN among two or more entries
\* panics), truncate.
FindFinish(cfg, similarities, paths, top_k) ==
    LET kept == FilterByThreshold(similarities, paths, cfg.similarity_threshold)
    IN IF Len(kept) >= 2 /\ \E i \in 1..Len(kept) : IsNaN(kept[i].similarity)
       THEN Panic
       ELSE Ok(Truncate(SortBySimilarity(kept), top_k))


\* The f64 `1.0 - x` of pairwise_distances for an f32-valued x, kept as the
\* term it is: the model's integers do not hold a 53-bit mantissa.
OneMinus(x) == [k |-> "1-x", s |-> x.s, m |-> x.m, e |-> x.e, of |-> x.k]

\* The rows with the kernel run on the diagonal as well.
PairwiseRowsWithDiagonal(cfg, hw, vectors_flat, vector_size, n, lo, hi) ==
    [c \in 1..((hi - lo) * n) |->
        OneMinus(cosine_similarity_internal(cfg, hw,
            ToF32Vec(Chunk(vectors_flat, vector_size, lo + ((c - 1) \div n))),
            ToF32Vec(Chunk(vectors_flat, vector_size, (c - 1) % n))).v)]

\* Rows lo..hi-1 of the distance matrix, row after row: 0.0 where the
\* zeroed buffer is never written (the diagonal), 1.0 - similarity
\* elsewhere.  The kernel is evaluated once per distinct pair of vectors.
PairwiseRows(cfg, hw, vectors_flat, vector_size, n, lo, hi) ==
    LET vecs == {Chunk(vectors_flat, vector_size, j) : j \in 0..(n - 1)}
        K == {<<v, w, cosine_similarity_internal(cfg, hw, ToF32Vec(v), ToF32Vec(w)).v>> :
                 v \in vecs, w \in vecs}
        Cell(i, j) ==
            IF i = j THEN Zero
            ELSE OneMinus((CHOOSE p \in K :
                              /\ p[1] = Chunk(vectors_flat, vector_size, i)
                              /\ p[2] = Chunk(vectors_flat, vector_size, j))[3])
    IN [c \in 1..((hi - lo) * n) |-> Cell(lo + ((c - 1) \div n), (c - 1) % n)]

\* pairwise_distances on its sequential path: <<outcome, cells computed>>.
pairwise_sequential(cfg, hw, vectors_flat, vector_size) ==
    LET v == PairwiseValidation(vectors_flat, vector_size)
        n == Len(vectors_flat) \div vector_size
    IN IF v # NoResult THEN <<v, 0>>
       ELSE <<Ok(PairwiseRows(cfg, hw, vectors_flat, vector_size, n, 0, n)), n * n - n>>

ZeroVectorError == "Cannot normalize zero vector"

\* The f64 quotient `x / (norm as f64)` of a finite f64 x by an f32-valued
\* norm that is not zero: 0.0 by an infinite norm, a NaN by a NaN, and
\* otherwise the finite quotient, kept as the term it is (the model's
\* integers do not hold a 53-bit mantissa).
F64DivByNorm(x, norm) ==
    IF IsNaN(x) \/ IsNaN(norm) THEN NaN
    ELSE IF norm.k = "inf" THEN (IF x.k = "inf" THEN NaN ELSE Zero)
    ELSE IF x.k = "inf" THEN x
    ELSE IF IsZero(x) THEN Zero
    ELSE [k |-> "x/n", s |-> x.s, m |-> x.m, e |-> x.e, n |-> norm]

\* normalize_vector: the norm of the f32 copy, the rejection of a zero norm,
\* then every f64 component divided by the norm.
normalize_vector(cfg, hw, vector) ==
    IF F32Eq(vector_norm_internal(cfg, hw, ToF32Vec(vector)), Zero)
    THEN Err(ZeroVectorError)
    ELSE Ok([i \in 1..Len(vector) |->
               F64DivByNorm(vector[i], vector_norm_internal(cfg, hw, ToF32Vec(vector)))])

\* vector_norm: the norm of the f32 copy; the f32 widens to f64 unchanged.
vector_norm(cfg, hw, vector) == Ok(vector_norm_internal(cfg, hw, ToF32Vec(vector)))

\* Bit i (from 0, the lowest) of the natural number n < 2^31.
BitOf(n, i) == IF i < 0 \/ i > 30 THEN 0 ELSE (n \div (2 ^ i)) % 2

\* The IEEE-754 binary64 layout of an f64 value: 52 fraction bits, 11
\* exponent bits with bias 1023, the sign bit.
F64FractionBits == 52
F64Bias == 1023

\* Bit i (from 0) of the 64-bit pattern of the f64 value x = m * 2^e: a
\* normal number keeps the bits of m below its leading one at the top of
\* the fraction, a subnormal one keeps m * 2^(e + 1074).
F64Bit(x, i) ==
    IF x.k = "nan" THEN (IF i >= F64FractionBits - 1 /\ i < 63 THEN 1 ELSE 0)
    ELSE IF i = 63 THEN x.s
    ELSE IF x.k = "inf" THEN (IF i >= F64FractionBits THEN 1 ELSE 0)
    ELSE IF x.m = 0 THEN 0
    ELSE IF x.e + BitLen(x.m) - 1 < 1 - F64Bias
         THEN (IF i >= F64FractionBits THEN 0
               ELSE BitOf(x.m, i - (x.e + F64Bias + F64FractionBits - 1)))
    ELSE IF i >= F64FractionBits
         THEN BitOf(x.e + BitLen(x.m) - 1 + F64Bias, i - F64FractionBits)
    ELSE BitOf(x.m, i - (F64FractionBits + 1 - BitLen(x.m)))

\* Byte b (from 0) of f.to_le_bytes().
F64Byte(x, b) ==
    F64Bit(x, 8 * b) + 2 * F64Bit(x, 8 * b + 1) + 4 * F64Bit(x, 8 * b + 2)
        + 8 * F64Bit(x, 8 * b + 3) + 16 * F64Bit(x, 8 * b + 4)
        + 32 * F64Bit(x, 8 * b + 5) + 64 * F64Bit(x, 8 * b + 6)
        + 128 * F64Bit(x, 8 * b + 7)

\* vector.iter().flat_map(|f| f.to_le_bytes()).collect()
LeBytes(vector) ==
    [i \in 1..(8 * Len(vector)) |-> F64Byte(vector[((i - 1) \div 8) + 1], (i - 1) % 8)]

\* The hex digest of BLAKE3 over the bytes.  The hash is a function of the
\* bytes; the model takes distinct inputs to distinct digests.
Blake3Hex(bytes) == <<"blake3", bytes>>

\* The digest of the bytes of the components after their conversion to f32.
create_cache_key_f32(vector) == Blake3Hex(LeBytes(ToF32Vec(vector)))

\* create_cache_key: the digest of the f64 components' bytes.
create_cache_key(vector) == Blake3Hex(LeBytes(vector))

\* ------------------------------------------------------------------------
\* Inputs
\* ------------------------------------------------------------------------

\* Bounds of the model.
MaxLen == 2      \* longest query, largest vector_size
MaxFlat == 4     \* longest small collection (in components)
MaxK == 2        \* largest top_k
NumJobs == 2     \* jobs a parallel section is split into

\* The f64 value n, for an integer n.
IntF(n) == Fin(IF n < 0 THEN 1 ELSE 0, IF n < 0 THEN -n ELSE n, 0)
One == Fin(0, 8388608, -23)

\* Component i (from 1) of the endless periodic sequence over table tab.
Elem(tab, i) == IntF(tab[((i - 1) % Len(tab)) + 1])
Prefix(tab, n) == [i \in 1..n |-> Elem(tab, i)]

\* Collections: with vector_size 2 the first table reads (1,0) (0,1) (-1,0)
\* (1,1), the second (3,4) (0,0) (4,3) (3,4): a zero vector and a tie.
FlatTables == {<<1, 0, 0, 1, -1, 0, 1, 1>>, <<3, 4, 0, 0, 4, 3, 3, 4>>}
QueryTables == {<<1, 0>>, <<3, 4>>, <<0, 0>>}

SmallFlats == {Prefix(t, n) : t \in FlatTables, n \in 0..MaxFlat}
\* Collections on both sides of each parallel threshold.
BatchFlats ==
    SmallFlats \cup {Prefix(<<1, 0, 0, 1, -1, 0, 1, 1>>, n) :
                       n \in {BatchParallelThreshold, BatchParallelThreshold + 1}}
\* Collections of find_similar_vectors: with vector_size 1 and a positive
\* query the first four vectors score 0, 0, 1 and -1.
FindFlats ==
    {Prefix(<<0, 0, 1, -1, 3, 4, 4, 3>>, n) :
        n \in (0..MaxFlat) \cup {BatchParallelThreshold + 1}}
PairwiseFlats ==
    SmallFlats \cup {Prefix(<<1, 0, 0, 1, -1, 0, 1, 1>>, n) :
                       n \in {PairwiseParallelThreshold, PairwiseParallelThreshold + 1}}
\* Queries, one of them a full lane wide.
Queries ==
    {Prefix(t, n) : t \in QueryTables, n \in 0..MaxLen}
        \cup {Prefix(<<1, 0>>, LaneWidth)}
\* Queries of find_similar_vectors.
FindQueries == {Prefix(t, n) : t \in {<<1, 0>>, <<3, 4>>}, n \in 0..MaxLen}
Sizes == 0..MaxLen
\* Vectors at the edges of f32: a component whose square underflows to zero
\* in f32 (2^-100), one whose square overflows (2^64), one that differs from
\* 1.0 below the precision of f32 (1 + 2^-30), and two vectors of fifteen
\* components on which the two kernels round differently.
EdgeVectors ==
    {<<Fin(0, 1, -100)>>, <<Fin(0, 1, 64)>>, <<Fin(0, 1073741825, -30)>>,
     Prefix(<<4096, 0, 0, 0, 0, 0, 0, 0, 1, 1, 1, 1, 1, 1, 1>>, 2 * LaneWidth - 1),
     Prefix(<<4096, 0, 0, 0, 0, 0, 0, 0, 0, 0, 0, 0, 0, 0, 0>>, 2 * LaneWidth - 1)}
\* Arguments of cosine_similarity and of the operations on one vector, some
\* of them longer than a lane.
Vectors ==
    {Prefix(t, n) : t \in QueryTables \cup FlatTables, n \in 0..MaxLen}
        \cup {Prefix(t, LaneWidth + 1) :
                 t \in {<<0, 0>>, <<3, 4>>, <<1, 0, 0, 1, -1, 0, 1, 1>>}}
        \cup EdgeVectors

\* paths: distinct identifiers, as many as vectors or one more.
PathsOf(n) == [i \in 1..n |-> <<"path", i - 1>>]
PathCounts(vectors_flat, vector_size) ==
    LET n == IF vector_size = 0 THEN 0 ELSE Len(vectors_flat) \div vector_size
    IN {n, n + 1}

\* similarity_threshold: the default 0.7, and 0.0.  The f64 0.7 lies strictly
\* between the f32 values 11744051 * 2^-24 and 11744052 * 2^-24, so
\* `similarity >= 0.7` on an f32-valued similarity is
\* `similarity >= 11744052 * 2^-24`.
DefaultThreshold == Fin(0, 11744052, -24)
Thresholds == {DefaultThreshold, Zero}

\* What a raw load past the end of a slice can lead to: a crash, or scores
\* computed from whatever the memory held.
OobScores == {Zero, One, NaN}
UBOutcomes(n) == {Abort} \cup {Ok([i \in 1..n |-> g]) : g \in OobScores}
Resolve(outcome, n) == IF outcome.kind = "ub" THEN UBOutcomes(n) ELSE {outcome}

\* ------------------------------------------------------------------------
\* The state machine
\* ------------------------------------------------------------------------

Args(op, query, flat, vector_size, paths, top_k) ==
    [op |-> op, query |-> query, flat |-> flat, vector_size |-> vector_size,
     paths |-> paths, top_k |-> top_k]
NoCall == Args("none", <<>>, <<>>, 0, <<>>, 0)

\* The kernels run on their own (KernelSpec): their two arguments and what
\* each kernel returned, NoOutcome before it ran.
NoOutcome == [kind |-> "none", v |-> Zero]
KernelRun(vec_a, vec_b) ==
    [vec_a |-> vec_a, vec_b |-> vec_b, scalar |-> NoOutcome, simd |-> NoOutcome]
NoKernel == KernelRun(<<>>, <<>>)

\* A slot of the collect() buffer no job has written yet.
Unwritten == [kind |-> "unwritten", v |-> Zero]

\* VectorConfig::default()
DefaultConfig ==
    [use_simd |-> TRUE, use_parallel |-> TRUE, similarity_threshold |-> DefaultThreshold]

\* The Option<VectorConfig> given to the constructor: None, or Some of any
\* configuration.
NoConfig == [none |-> TRUE]
SuppliedConfigs ==
    {NoConfig} \cup [use_simd : BOOLEAN, use_parallel : BOOLEAN,
                     similarity_threshold : Thresholds]

\* VectorOperations::new(config): config.unwrap_or_default()
new(supplied) == IF supplied = NoConfig THEN DefaultConfig ELSE supplied

\* An engine constructed with any configuration or with none, on any machine.
Init ==
    /\ config \in {new(supplied) : supplied \in SuppliedConfigs}
    /\ avx2 \in BOOLEAN
    /\ pc = "idle"
    /\ call = NoCall
    /\ jobs = <<>>
    /\ buf = <<>>
    /\ computed = 0
    /\ result = NoResult
    /\ kernel = NoKernel

\* A call that returns within the step.
Return(c, outcome, n) ==
    /\ call' = c
    /\ result' = outcome
    /\ computed' = n
    /\ pc' = "done"
    /\ jobs' = <<>>
    /\ buf' = <<>>
    /\ UNCHANGED <<config, avx2, kernel>>

\* A call that enters a parallel section over a buffer.
Fork(c, buffer) ==
    /\ call' = c
    /\ result' = NoResult
    /\ computed' = 0
    /\ pc' = "par"
    /\ jobs' = [w \in 1..NumJobs |-> "todo"]
    /\ buf' = buffer
    /\ UNCHANGED <<config, avx2, kernel>>

CallCosine ==
    /\ pc = "idle"
    /\ \E vec_a \in Vectors, vec_b \in Vectors :
          Return(Args("cosine_similarity", vec_a, vec_b, 0, <<>>, 0),
                 cosine_similarity(config, avx2, vec_a, vec_b),
                 IF Len(vec_a) = Len(vec_b) /\ vec_a # <<>> THEN 1 ELSE 0)

\* The dispatch taking the parallel path from the threshold on.
DispatchAtThreshold(c, n) ==
    IF config.use_parallel /\ n >= BatchParallelThreshold
    THEN Fork(c, [i \in 1..n |-> Unwritten])
    ELSE LET r == batch_sequential(config, avx2, c.query, c.flat, c.vector_size)
         IN \E o \in Resolve(r[1], n) :
               Return(c,
                      IF c.op = "find_similar_vectors" /\ o.kind = "ok"
                      THEN FindFinish(config, o.value, c.paths, c.top_k)
                      ELSE o,
                      r[2])

\* batch_cosine_similarity from its dispatch on, shared with
\* find_similar_vectors: `finish` is what the caller does with the scores.
Dispatch(c, n) ==
    IF config.use_parallel /\ n > BatchParallelThreshold
    THEN Fork(c, [i \in 1..n |-> Unwritten])
    ELSE LET r == batch_sequential(config, avx2, c.query, c.flat, c.vector_size)
         IN \E o \in Resolve(r[1], n) :
               Return(c,
                      IF c.op = "find_similar_vectors" /\ o.kind = "ok"
                      THEN FindFinish(config, o.value, c.paths, c.top_k)
                      ELSE o,
                      r[2])

CallBatch ==
    /\ pc = "idle"
    /\ \E query_vector \in Queries, vectors_flat \in BatchFlats, vector_size \in Sizes :
          LET c == Args("batch_cosine_similarity", query_vector, vectors_flat,
                        vector_size, <<>>, 0)
              v == BatchValidation(vectors_flat, vector_size)
          IN IF v # NoResult THEN Return(c, v, 0)
             ELSE Dispatch(c, Len(vectors_flat) \div vector_size)

\* find_similar_vectors with the arguments c: its own validation, the
\* validation of batch_cosine_similarity, then the dispatch.
FindCall(c) ==
    LET f == FindValidation(c.flat, c.vector_size, c.paths)
        v == BatchValidation(c.flat, c.vector_size)
    IN IF f # NoResult THEN Return(c, f, 0)
       ELSE IF v # NoResult
            THEN Return(c, IF v.kind = "ok"
                           THEN FindFinish(config, v.value, c.paths, c.top_k)
                           ELSE v, 0)
       ELSE Dispatch(c, Len(c.flat) \div c.vector_size)

CallFind ==
    /\ pc = "idle"
    /\ \E query_vector \in FindQueries, vectors_flat \in FindFlats, vector_size \in Sizes,
          top_k \in 0..MaxK :
          \E np \in PathCounts(vectors_flat, vector_size) :
             FindCall(Args("find_similar_vectors", query_vector, vectors_flat,
                           vector_size, PathsOf(np), top_k))

CallPairwise ==
    /\ pc = "idle"
    /\ \E vectors_flat \in PairwiseFlats, vector_size \in Sizes :
          LET c == Args("pairwise_distances", <<>>, vectors_flat, vector_size, <<>>, 0)
              v == PairwiseValidation(vectors_flat, vector_size)
              n == Len(vectors_flat) \div vector_size
          IN IF v # NoResult THEN Return(c, v, 0)
             ELSE IF config.use_parallel /\ n > PairwiseParallelThreshold
                  THEN Fork(c, [i \in 1..(n * n) |-> Zero])
             ELSE LET r == pairwise_sequential(config, avx2, vectors_flat, vector_size)
                  IN Return(c, r[1], r[2])

CallNormalize ==
    /\ pc = "idle"
    /\ \E vector \in Vectors :
          Return(Args("normalize_vector", vector, <<>>, 0, <<>>, 0),
                 normalize_vector(config, avx2, vector), 0)

CallNorm ==
    /\ pc = "idle"
    /\ \E vector \in Vectors :
          Return(Args("vector_norm", vector, <<>>, 0, <<>>, 0),
                 vector_norm(config, avx2, vector), 0)

CallCacheKey ==
    /\ pc = "idle"
    /\ \E vector \in Vectors :
          Return(Args("create_cache_key", vector, <<>>, 0, <<>>, 0),
                 Ok(create_cache_key(vector)), 0)

\* The items of the call in progress, and job w's share of them: the range
\* is split into NumJobs contiguous parts.
Items == Len(call.flat) \div call.vector_size
JobLo(w) == ((w - 1) * Items) \div NumJobs
\* A share that reaches one item into the next job's.
JobHiOverlapping(w) == Min(Items, ((w * Items) \div NumJobs) + 1)
JobHi(w) == (w * Items) \div NumJobs

\* buffer with xs written from position `at` (from 0) on.
WriteAt(buffer, at, xs) ==
    SubSeq(buffer, 1, at) \o xs \o SubSeq(buffer, at + Len(xs) + 1, Len(buffer))

\* A job of the batch map over the kernel outcomes ks of its range: what it
\* writes before it ends, and how it ends.
BatchJob(ks) ==
    LET f == FirstFailure(ks)
    IN [written |-> SubSeq(ks, 1, IF f = 0 THEN Len(ks) ELSE f - 1),
        end |-> IF f = 0 THEN "done"
                ELSE IF ks[f].kind = "panic" THEN "panicked"
                ELSE "undefined"]

\* One job of the parallel section runs to its end: its scores (or rows) go
\* to its own slots of the buffer; a kernel call that panics ends the job.
RunJob(w) ==
    /\ pc = "par"
    /\ jobs[w] = "todo"
    /\ IF call.op = "pairwise_distances"
       THEN /\ buf' = WriteAt(buf, JobLo(w) * Items,
                              PairwiseRows(config, avx2, call.flat, call.vector_size,
                                           Items, JobLo(w), JobHi(w)))
            /\ jobs' = [jobs EXCEPT ![w] = "done"]
            /\ computed' = computed + (JobHi(w) - JobLo(w)) * (Items - 1)
       ELSE LET j == BatchJob(KernelOutcomes(config, avx2, ToF32Vec(call.query),
                                             call.flat, call.vector_size,
                                             JobLo(w), JobHi(w)))
            IN /\ buf' = WriteAt(buf, JobLo(w), j.written)
               /\ jobs' = [jobs EXCEPT ![w] = j.end]
               /\ computed' = computed + Len(j.written)
    /\ UNCHANGED <<config, avx2, pc, call, result, kernel>>

\* The parallel section ends when every job has: a panic of a job is
\* resumed in the caller, otherwise the caller goes on with the buffer.
Join ==
    /\ pc = "par"
    /\ \A w \in 1..NumJobs : jobs[w] # "todo"
    /\ LET outcome ==
              IF \E w \in 1..NumJobs : jobs[w] = "undefined" THEN Undefined
              ELSE IF \E w \in 1..NumJobs : jobs[w] = "panicked" THEN Panic
              ELSE IF call.op = "pairwise_distances" THEN Ok(buf)
              ELSE Ok([i \in 1..Len(buf) |-> buf[i].v])
       IN \E o \in Resolve(outcome, Len(buf)) :
             result' = IF call.op = "find_similar_vectors" /\ o.kind = "ok"
                       THEN FindFinish(config, o.value, call.paths, call.top_k)
                       ELSE o
    /\ pc' = "done"
    /\ UNCHANGED <<config, avx2, call, jobs, buf, computed, kernel>>

\* The caller takes the result; the engine, which keeps nothing of a call,
\* is ready for the next one.
Take ==
    /\ pc = "done"
    /\ pc' = "idle"
    /\ call' = NoCall
    /\ jobs' = <<>>
    /\ buf' = <<>>
    /\ computed' = 0
    /\ result' = NoResult
    /\ UNCHANGED <<config, avx2, kernel>>

Next ==
    \/ CallCosine
    \/ CallBatch
    \/ CallFind
    \/ CallPairwise
    \/ CallNormalize
    \/ CallNorm
    \/ CallCacheKey
    \/ \E w \in 1..NumJobs : RunJob(w)
    \/ Join
    \/ Take

Spec == Init /\ [][Next]_vars

\* The thread pool runs every job it was given, and the caller, blocked in
\* the parallel section, goes on once the jobs have ended.  Nothing obliges
\* the caller of the engine to make a call.
\* The fairness conditions name the steps by what they do to jobs and pc:
\* job w ends in a step of RunJob(w), the section ends in a step of Join.
JobEnds(w) ==
    /\ pc = "par"
    /\ jobs[w] = "todo"
    /\ jobs' \in {[jobs EXCEPT ![w] = e] : e \in {"done", "panicked", "undefined"}}

SectionEnds ==
    /\ pc = "par"
    /\ \A w \in 1..NumJobs : jobs[w] # "todo"
    /\ pc' = "done"

FairSpec ==
    /\ Spec
    /\ \A w \in 1..NumJobs : WF_jobs(JobEnds(w))
    /\ WF_pc(SectionEnds)

\* ------------------------------------------------------------------------
\* The two kernels side by side
\* ------------------------------------------------------------------------

MaxKernelLen == 17

\* The f32 value t * 2^e.
Scaled(t, e) == ToF32(Fin(IF t < 0 THEN 1 ELSE 0, IF t < 0 THEN -t ELSE t, e))
ScaledPrefix(tab, e, n) == [i \in 1..n |-> Scaled(tab[((i - 1) % Len(tab)) + 1], e)]

\* Pairs of component tables with their scales: small integers, fractions
\* with twelve significant bits, a zero vector, and magnitudes whose squares
\* leave the range of f32.
KernelCases ==
    {<<<<1, 2, 3, 4, 5, 6, 7, 8, 9, 10, 11>>, 0, <<1, 2, 3, 4, 5, 6, 7, 8, 9, 10, 11>>, 0>>,
     <<<<1, 2, 3, 4, 5, 6, 7, 8, 9, 10, 11>>, 0, <<3, -1, 4, 1, -5, 9, 2, -6, 5, 3, 5>>, 0>>,
     <<<<3277, -1365, 2731, 4095, -819, 2047, 1111, -3003, 777, 2500, -4001>>, -12,
       <<1001, 2002, -3003, 4004, 505, -606, 707, 808, -909, 1010, 1111>>, -12>>,
     <<<<0>>, 0, <<3, -1, 4, 1, -5, 9, 2, -6, 5, 3, 5>>, 0>>,
     <<<<1, 0, 0, 0, 0, 0, 0, 0, 1, 1, 0>>, 64, <<1, 0, 0, 0, 0, 0, 0, 0, 1, -1, 0>>, 63>>}

\* Equal-length arguments of the kernels.
KernelInputs ==
    {KernelRun(ScaledPrefix(c[1], c[2], n), ScaledPrefix(c[3], c[4], n)) :
        c \in KernelCases, n \in 0..MaxKernelLen}

KernelInit ==
    /\ kernel \in KernelInputs
    /\ config = [use_simd |-> TRUE, use_parallel |-> TRUE,
                 similarity_threshold |-> DefaultThreshold]
    /\ avx2 = TRUE
    /\ pc = "idle"
    /\ call = NoCall
    /\ jobs = <<>>
    /\ buf = <<>>
    /\ computed = 0
    /\ result = NoResult

RunScalar ==
    /\ kernel.scalar = NoOutcome
    /\ kernel' = [kernel EXCEPT
                    !.scalar = Val(cosine_similarity_scalar(kernel.vec_a, kernel.vec_b))]
    /\ UNCHANGED <<config, avx2, pc, call, jobs, buf, computed, result>>

RunSimd ==
    /\ kernel.simd = NoOutcome
    /\ kernel' = [kernel EXCEPT
                    !.simd = cosine_similarity_simd(kernel.vec_a, kernel.vec_b)]
    /\ UNCHANGED <<config, avx2, pc, call, jobs, buf, computed, result>>

KernelNext ==
    \/ RunScalar
    \/ RunSimd

KernelSpec == KernelInit /\ [][KernelNext]_vars

\* ------------------------------------------------------------------------
\* find_similar_vectors at the edges of its arguments
\* ------------------------------------------------------------------------

\* Thresholds over all of f64: -1.0, 0.0, the default, 1.0, the infinities
\* and a NaN.
EdgeThresholds == {Fin(1, 1, 0), Zero, DefaultThreshold, One, Inf(0), Inf(1), NaN}

\* Components: 1 and -1, 2^64 (its square overflows in f32), an infinity and
\* a NaN.  With vector_size 2 the first collection reads (1,1) (-1,0)
\* (2^64,2^64) (-2^64,2^64), the second (NaN,1) (inf,1) (1,NaN) (1,1).
EdgeFlatTables ==
    {<<IntF(1), IntF(1), IntF(-1), IntF(0),
       Fin(0, 1, 64), Fin(0, 1, 64), Fin(1, 1, 64), Fin(0, 1, 64)>>,
     <<NaN, IntF(1), Inf(0), IntF(1), IntF(1), NaN, IntF(1), IntF(1)>>}
EdgeFlats ==
    {[i \in 1..(n * MaxLen) |-> t[((i - 1) % Len(t)) + 1]] :
        t \in EdgeFlatTables, n \in 0..MaxFlat}
EdgeQueries ==
    {[i \in 1..MaxLen |-> q[((i - 1) % Len(q)) + 1]] :
        q \in {<<IntF(1), IntF(1)>>, <<Fin(0, 1, 64), Fin(0, 1, 64)>>, <<Inf(0), IntF(1)>>}}

EdgeInit ==
    /\ config \in [use_simd : BOOLEAN, use_parallel : {TRUE},
                   similarity_threshold : EdgeThresholds]
    /\ avx2 = TRUE
    /\ pc = "idle"
    /\ call = NoCall
    /\ jobs = <<>>
    /\ buf = <<>>
    /\ computed = 0
    /\ result = NoResult
    /\ kernel = NoKernel

\* find_similar_vectors on a query and vectors of the largest dimension of
\* the model, with one label for each vector.
CallFindAtEdges ==
    /\ pc = "idle"
    /\ \E query_vector \in EdgeQueries, vectors_flat \in EdgeFlats, top_k \in 0..(MaxK + 1) :
          FindCall(Args("find_similar_vectors", query_vector, vectors_flat, MaxLen,
                        PathsOf(Len(vectors_flat) \div MaxLen), top_k))

EdgeNext ==
    \/ CallFindAtEdges
    \/ Take

EdgeSpec == EdgeInit /\ [][EdgeNext]_vars

\* ------------------------------------------------------------------------
\* SecurityUtils::sanitize_filename (security_utils.rs)
\* ------------------------------------------------------------------------

\* A string is the sequence of its characters.
dangerous_chars == <<"/", "\\", ":", "*", "?", "\"", "<", ">", "|">>

\* s.replace(ch, "_")
Replace(s, ch) == [i \in 1..Len(s) |-> IF s[i] = ch THEN "_" ELSE s[i]]

RECURSIVE ReplaceEach(_, _)
\* The loop over the first k dangerous characters, each replaced in turn.
ReplaceEach(s, k) ==
    IF k = 0 THEN s ELSE Replace(ReplaceEach(s, k - 1), dangerous_chars[k])

RECURSIVE TrimStart(_, _)
TrimStart(s, ch) ==
    IF s # <<>> /\ s[1] = ch THEN TrimStart(SubSeq(s, 2, Len(s)), ch) ELSE s

RECURSIVE TrimEnd(_, _)
TrimEnd(s, ch) ==
    IF s # <<>> /\ s[Len(s)] = ch THEN TrimEnd(SubSeq(s, 1, Len(s) - 1), ch) ELSE s

\* s.trim_matches(ch): ch taken off both ends as often as it stands there.
trim_matches(s, ch) == TrimEnd(TrimStart(s, ch), ch)

Unnamed == <<"u", "n", "n", "a", "m", "e", "d">>

\* What is left of the name, or "unnamed" when nothing is.
OrUnnamed(sanitized) == IF sanitized = <<>> THEN Unnamed ELSE sanitized

\* sanitize_filename: the dangerous characters replaced, then the dots
\* trimmed off both ends, then the spaces.
sanitize_filename(filename) ==
    Ok(OrUnnamed(trim_matches(
           trim_matches(ReplaceEach(filename, Len(dangerous_chars)), "."), " ")))

\* File names: every string of at most MaxNameLen characters over a letter,
\* the dot, the space and two of the dangerous characters.
MaxNameLen == 4
NameChars == {"a", ".", " ", "/", ":"}
Filenames == UNION {[1..n -> NameChars] : n \in 0..MaxNameLen}

SanitizeInit ==
    /\ config = DefaultConfig
    /\ avx2 = TRUE
    /\ pc = "idle"
    /\ call = NoCall
    /\ jobs = <<>>
    /\ buf = <<>>
    /\ computed = 0
    /\ result = NoResult
    /\ kernel = NoKernel

CallSanitize ==
    /\ pc = "idle"
    /\ \E filename \in Filenames :
          Return(Args("sanitize_filename", filename, <<>>, 0, <<>>, 0),
                 sanitize_filename(filename), 0)

SanitizeNext ==
    \/ CallSanitize
    \/ Take

SanitizeSpec == SanitizeInit /\ [][SanitizeNext]_vars

\* ------------------------------------------------------------------------
\* Properties
\* ------------------------------------------------------------------------

\* The call of operation op has returned.
Returned(op) == pc = "done" /\ call.op = op

BatchOps == {"batch_cosine_similarity", "find_similar_vectors", "pairwise_distances"}

\* C1: cosine_similarity on two vectors of different lengths, one of which
\* may be empty, fails with DimensionMismatch and computes no score: the
\* length check comes before the empty-vector shortcut.
C1_LengthMismatchFails ==
    (Returned("cosine_similarity") /\ Len(call.query) # Len(call.flat))
        => (result = Err(DimensionMismatch) /\ computed = 0)

\* An empty first vector against a non-empty second one was refused.
C1_EmptyAgainstNonEmptyRefused ==
    /\ Returned("cosine_similarity")
    /\ call.query = <<>>
    /\ call.flat # <<>>
    /\ result = Err(DimensionMismatch)

\* Every component of v is zero as an f32: v has zero magnitude (the empty
\* vector included).
IsZeroVector(v) == \A i \in 1..Len(v) : IsZero(ToF32(v[i]))

\* C2: cosine_similarity on two vectors of equal length returns exactly 0.0,
\* not a NaN and not an error, when both are empty or when one of them has
\* zero magnitude, with the scalar kernel and with the vectorized one.
C2_ZeroMagnitudeGivesZero ==
    (/\ Returned("cosine_similarity")
     /\ Len(call.query) = Len(call.flat)
     /\ (IsZeroVector(call.query) \/ IsZeroVector(call.flat)))
        => result = Ok(Zero)

\* The vectorized kernel met a zero vector longer than a lane, against a
\* vector that is not zero, and the call returned 0.0.
C2_ZeroVectorThroughLanes ==
    /\ Returned("cosine_similarity")
    /\ config.use_simd /\ avx2
    /\ Len(call.query) > LaneWidth
    /\ Len(call.query) = Len(call.flat)
    /\ IsZeroVector(call.query)
    /\ ~IsZeroVector(call.flat)
    /\ result = Ok(Zero)

\* The f32 nearest to 1e-4.
Tolerance == Fin(0, 13743895, -37)

\* x and y differ by less than 1e-4; two NaNs count as the same result.
WithinTolerance(x, y) ==
    \/ IsNaN(x) /\ IsNaN(y)
    \/ F32Lt(Abs(F32Sub(x, y)), Tolerance)

\* C3: on every pair of equal-length vectors, whatever the length is modulo
\* the lane width, the vectorized kernel's result and the scalar kernel's
\* result differ by less than 1e-4.
C3_KernelsWithinTolerance ==
    (kernel.scalar # NoOutcome /\ kernel.simd # NoOutcome)
        => /\ kernel.simd.kind = "val"
           /\ WithinTolerance(kernel.simd.v, kernel.scalar.v)

\* C4: when batch_cosine_similarity accepts its arguments, its output has
\* len(collection) / dimension entries and entry i is what cosine_similarity
\* returns for the query and the i-th chunk of the collection, on the
\* sequential path and on the parallel path in every order of the jobs.
C4_BatchEntriesAreCosine ==
    (Returned("batch_cosine_similarity") /\ result.kind = "ok")
        => /\ Len(result.value) = Len(call.flat) \div call.vector_size
           /\ \A i \in 1..Len(result.value) :
                 Ok(result.value[i]) =
                    cosine_similarity(config, avx2, call.query,
                                      Chunk(call.flat, call.vector_size, i - 1))

\* C5: batch_cosine_similarity on a non-empty well-formed collection and a
\* query whose length is not the dimension fails with DimensionMismatch.
C5_QueryDimensionChecked ==
    (/\ Returned("batch_cosine_similarity")
     /\ call.vector_size > 0
     /\ call.flat # <<>>
     /\ Len(call.flat) % call.vector_size = 0
     /\ Len(call.query) # call.vector_size)
        => result = Err(DimensionMismatch)

\* C6: batch_cosine_similarity, find_similar_vectors and pairwise_distances
\* end in a result or in an error value on every input, dimension 0 and a
\* collection that is not a multiple of the dimension included: none
\* panics or aborts.
C6_NoPanic ==
    (pc = "done" /\ call.op \in BatchOps) => result.kind \in {"ok", "err"}

\* len is a multiple of d.
IsMultiple(len, d) == \E k \in 0..len : len = k * d

\* C7: batch_cosine_similarity and pairwise_distances fail with
\* MalformedCollection when the collection's length is not a multiple of
\* the dimension and pass that check when it is; an empty collection gives
\* an empty batch result and an empty matrix.
C7_MalformedCollectionIff ==
    (pc = "done" /\ call.op \in {"batch_cosine_similarity", "pairwise_distances"})
        => /\ (result = Err(MalformedCollection))
                 <=> ~IsMultiple(Len(call.flat), call.vector_size)
           /\ call.flat = <<>> => result = Ok(<<>>)

\* An argument of the call in progress fails one of the validations: the
\* collection's length, the number of labels, the query's dimension.
InvalidArguments ==
    \/ Len(call.flat) % call.vector_size # 0
    \/ /\ call.op = "find_similar_vectors"
       /\ Len(call.paths) # Len(call.flat) \div call.vector_size
    \/ /\ call.op \in {"batch_cosine_similarity", "find_similar_vectors"}
       /\ call.flat # <<>>
       /\ Len(call.query) # call.vector_size

\* C8: in batch_cosine_similarity, find_similar_vectors and
\* pairwise_distances (dimension at least 1) a call with an argument that
\* fails a validation returns an error, and a call that does not succeed
\* returns an error having computed no score and no matrix cell.
C8_NoPartialSuccess ==
    (pc = "done" /\ call.op \in BatchOps /\ call.vector_size > 0)
        => /\ InvalidArguments => result.kind = "err"
           /\ result.kind # "ok" => (result.kind = "err" /\ computed = 0)

\* What batch_cosine_similarity gives for the arguments of the call.
BatchOf == batch_sequential(config, avx2, call.query, call.flat, call.vector_size)[1]

\* The positions of sims at or above the configured threshold.
Qualifying(sims) ==
    {i \in 1..Len(sims) : F32Ge(sims[i], config.similarity_threshold)}

\* The positions in the collection of the entries of a result.
Positions(R) == {R[r].index + 1 : r \in 1..Len(R)}

\* R is the entries of sims at the positions Q, highest first, cut to top_k.
IsTopK(R, sims, Q, top_k) ==
    /\ Len(R) = Min(top_k, Cardinality(Q))
    /\ Positions(R) \subseteq Q
    /\ Cardinality(Positions(R)) = Len(R)
    /\ \A r \in 1..Len(R) :
          /\ R[r].similarity = sims[R[r].index + 1]
          /\ F32Ge(R[r].similarity, config.similarity_threshold)
    /\ \A r \in 1..(Len(R) - 1) : F32Ge(R[r].similarity, R[r + 1].similarity)
    /\ \A i \in Q \ Positions(R) :
          \A r \in 1..Len(R) : ~F32Lt(R[r].similarity, sims[i])

\* What the call returned is the top_k of the batch outcome b.
ReturnedTopKOf(b) ==
    b.kind = "ok" => IsTopK(result.value, b.value, Qualifying(b.value), call.top_k)

\* C9: find_similar_vectors returns entries of the batch result at or above
\* config.similarity_threshold, highest similarity first, cut to top_k: as
\* many as min(top_k, number of qualifying entries), similarities
\* non-increasing, and no qualifying entry left out has a higher similarity
\* than a returned one.
C9_TopKAboveThreshold ==
    (Returned("find_similar_vectors") /\ result.kind = "ok") => ReturnedTopKOf(BatchOf)

\* A result cut to top_k = 2 with more entries qualifying, the first of
\* which stood behind the second in the collection.
C9_SortedAndCut ==
    /\ Returned("find_similar_vectors")
    /\ result.kind = "ok"
    /\ call.top_k = 2
    /\ Len(result.value) = 2
    /\ Cardinality(Qualifying(BatchOf.value)) > 2
    /\ result.value[1].index > result.value[2].index
    /\ result.value[1].similarity # result.value[2].similarity

\* Each entry of R carries its position in the collection, the path and
\* the similarity at that position; no position comes twice.
IsCoIndexed(R, sims, paths) ==
    /\ \A r \in 1..Len(R) :
          /\ R[r].index \in 0..(Len(paths) - 1)
          /\ R[r].path = paths[R[r].index + 1]
          /\ R[r].similarity = sims[R[r].index + 1]
    /\ \A r \in 1..Len(R) : \A q \in 1..Len(R) :
          R[r].index = R[q].index => r = q

\* What the call returned is co-indexed with the batch outcome b.
ReturnedCoIndexedWith(b) ==
    b.kind = "ok" => IsCoIndexed(result.value, b.value, call.paths)

\* C10: every SimilarityResult of find_similar_vectors carries the position
\* of its vector in the collection as index, paths[index] as path and the
\* batch output at index as similarity; no index comes twice.
C10_ResultsCoIndexed ==
    (Returned("find_similar_vectors") /\ result.kind = "ok")
        => ReturnedCoIndexedWith(BatchOf)

\* A result whose first entry is not the first vector of the collection and
\* whose entries are not in collection order.
C10_IndexIsNotOutputPosition ==
    /\ Returned("find_similar_vectors")
    /\ result.kind = "ok"
    /\ Len(result.value) >= 2
    /\ result.value[1].index = 2
    /\ result.value[2].index = 0
    /\ result.value[1].path = <<"path", 2>>

\* The number of labels of the call is the number of vectors of its
\* collection: the quotient len(collection) / dimension as the code takes it
\* (usize division); with dimension 0 there is no quotient to be equal to.
LabelsMatchCollection ==
    /\ call.vector_size > 0
    /\ Len(call.paths) = Len(call.flat) \div call.vector_size

\* C11: find_similar_vectors fails with LabelCountMismatch whenever the
\* number of labels differs from len(collection) / dimension, and has
\* computed no similarity when it does.
C11_LabelCountChecked ==
    (Returned("find_similar_vectors") /\ ~LabelsMatchCollection)
        => (result = Err(LabelCountMismatch) /\ computed = 0)

\* C11 for dimensions of at least 1.
C11_LabelCountCheckedPositiveDimension ==
    (Returned("find_similar_vectors") /\ call.vector_size > 0
        /\ Len(call.paths) # Len(call.flat) \div call.vector_size)
        => (result = Err(LabelCountMismatch) /\ computed = 0)

\* M is the row-major n x n matrix of the collection: 0.0 on the diagonal,
\* 1 - cosine_similarity(vector_i, vector_j) elsewhere.
IsDistanceMatrix(M, vectors_flat, vector_size, n) ==
    /\ Len(M) = n * n
    /\ \A i \in 0..(n - 1) : M[i * n + i + 1] = Zero
    /\ \A v \in {Chunk(vectors_flat, vector_size, i) : i \in 0..(n - 1)} :
       \A w \in {Chunk(vectors_flat, vector_size, i) : i \in 0..(n - 1)} :
          LET sim == cosine_similarity(config, avx2, v, w)
          IN /\ sim.kind = "ok"
             /\ \A i \in 0..(n - 1) : \A j \in 0..(n - 1) :
                   (/\ i # j
                    /\ Chunk(vectors_flat, vector_size, i) = v
                    /\ Chunk(vectors_flat, vector_size, j) = w)
                      => M[i * n + j + 1] = OneMinus(sim.value)

\* C12: for a well-formed collection of n vectors pairwise_distances returns
\* n * n cells, row-major, with exactly 0 in cell (i, i), which no kernel call
\* computes, and 1 - cosine_similarity(vector_i, vector_j) in cell (i, j),
\* sequentially and in parallel.
C12_PairwiseMatrix ==
    (/\ Returned("pairwise_distances")
     /\ call.vector_size > 0
     /\ Len(call.flat) % call.vector_size = 0)
        => /\ result.kind = "ok"
           /\ IsDistanceMatrix(result.value, call.flat, call.vector_size,
                               Len(call.flat) \div call.vector_size)
           /\ computed = (Len(call.flat) \div call.vector_size)
                             * ((Len(call.flat) \div call.vector_size) - 1)

\* A matrix of more than 50 rows came back from the parallel section with a
\* zero diagonal and a distance next to it.
C12_ParallelMatrixReturned ==
    /\ Returned("pairwise_distances")
    /\ jobs # <<>>
    /\ result.kind = "ok"
    /\ Len(result.value) > PairwiseParallelThreshold * PairwiseParallelThreshold
    /\ result.value[1] = Zero
    /\ result.value[2] # Zero

\* The rows of the matrix job w owns.
RowsOf(w) == JobLo(w)..(JobHi(w) - 1)

\* A step of a parallel pairwise_distances call leaves the arguments as
\* they are, and the cells it changes lie in rows of the one job that ends
\* in the step, rows that no other job owns.
WritesOwnRows ==
    (pc = "par" /\ call.op = "pairwise_distances")
        => /\ call' = call
           /\ buf' # buf =>
                 \E w \in 1..NumJobs :
                    /\ jobs[w] = "todo"
                    /\ jobs'[w] = "done"
                    /\ \A c \in 1..Len(buf) :
                          buf'[c] # buf[c] =>
                             /\ (c - 1) \div Items \in RowsOf(w)
                             /\ \A u \in 1..NumJobs :
                                   u # w => (c - 1) \div Items \notin RowsOf(u)

\* The matrix a parallel pairwise_distances call returned is the one the
\* sequential path computes.
ParallelMatrixIsSequential ==
    (Returned("pairwise_distances") /\ jobs # <<>>)
        => result = pairwise_sequential(config, avx2, call.flat, call.vector_size)[1]

\* C13: in a parallel pairwise_distances call a worker writes only the cells
\* of its own rows and never the collection, no cell is written by two
\* workers, and whatever the order of the workers the matrix returned is the
\* one of the sequential path.
C13_RowsWrittenByOwner ==
    [][WritesOwnRows]_vars /\ []ParallelMatrixIsSequential

\* The last job has written its rows while the first has not started: the
\* first row is still zero, the last one holds distances.
C13_LastRowsBeforeFirst ==
    /\ pc = "par"
    /\ call.op = "pairwise_distances"
    /\ jobs[1] = "todo"
    /\ jobs[NumJobs] = "done"
    /\ buf[2] = Zero
    /\ buf[Len(buf) - 1] # Zero

\* The parallel section is left only when no job is still to run.
JoinAfterAllJobs ==
    (pc = "par" /\ pc' # "par") => \A w \in 1..NumJobs : jobs[w] # "todo"

\* A job runs once: only a job still to run changes its state.
JobsRunOnce ==
    pc = "par" => \A w \in 1..NumJobs : jobs'[w] # jobs[w] => jobs[w] = "todo"

\* Item i (from 0) of a parallel call belongs to exactly one job.
OwnedOnce(i) == Cardinality({w \in 1..NumJobs : i \in JobLo(w)..(JobHi(w) - 1)}) = 1

\* When a parallel call has returned, every item belonged to one job, every
\* job has run to its end, and every slot of a batch buffer is written.
EveryIndexWritten ==
    (pc = "done" /\ jobs # <<>> /\ result.kind = "ok")
        => /\ \A w \in 1..NumJobs : jobs[w] = "done"
           /\ \A i \in 0..(Items - 1) : OwnedOnce(i)
           /\ call.op # "pairwise_distances"
                 => \A c \in 1..Len(buf) : buf[c] # Unwritten

\* The call has returned to its caller, with a result or with an error.
CallReturned == pc = "done" /\ result.kind \in {"ok", "err"}

\* C14: a call on the parallel path returns only after every worker has
\* ended, every output index then written exactly once, and with the workers
\* scheduled fairly every call that was made returns.
C14_ParallelCallReturns ==
    /\ [][JoinAfterAllJobs /\ JobsRunOnce]_vars
    /\ []EveryIndexWritten
    /\ (pc # "idle") ~> CallReturned

\* With the workers scheduled fairly every parallel section ends, in a
\* return or in a panic, and it ends only after every worker.
C14_ParallelSectionEnds ==
    /\ [][JoinAfterAllJobs /\ JobsRunOnce]_vars
    /\ (pc = "par") ~> (pc = "done")

\* The item count above which the operation of the call goes parallel.
ThresholdOf(op) ==
    IF op = "pairwise_distances" THEN PairwiseParallelThreshold
    ELSE BatchParallelThreshold

\* The call in progress or just returned ran, or runs, a parallel section.
TookParallelPath == jobs # <<>>

\* C15: a batch_cosine_similarity or pairwise_distances call that computes
\* takes the parallel strategy exactly when config.use_parallel is set and
\* it has more than 100 vectors (more than 50 for pairwise_distances); with
\* exactly 100 (50) or with use_parallel unset it runs sequentially.
C15_ParallelAboveThreshold ==
    (/\ pc \in {"par", "done"}
     /\ call.op \in {"batch_cosine_similarity", "pairwise_distances"}
     /\ call.vector_size > 0
     /\ Len(call.flat) % call.vector_size = 0)
        => (TookParallelPath <=> (config.use_parallel /\ Items > ThresholdOf(call.op)))

\* A batch of exactly 100 vectors ran sequentially with use_parallel set.
C15_SequentialAtThreshold ==
    /\ Returned("batch_cosine_similarity")
    /\ config.use_parallel
    /\ call.vector_size > 0
    /\ Len(call.flat) = BatchParallelThreshold * call.vector_size
    /\ ~TookParallelPath
    /\ Len(result.value) = BatchParallelThreshold

\* The engine is configured for the vectorized kernels and the hardware
\* has them.
UseVectorized == config.use_simd /\ avx2

\* C16: a call computes with the vectorized kernel exactly when
\* config.use_simd is set and AVX2 is detected, and with the scalar kernel
\* in every other case, returning a value and no error either way: for
\* cosine_similarity on vectors that reach the kernel, and for vector_norm.
C16_VectorizedWhenConfiguredAndDetected ==
    /\ (/\ Returned("cosine_similarity")
        /\ Len(call.query) = Len(call.flat)
        /\ call.query # <<>>)
          => result = Ok(IF UseVectorized
                         THEN cosine_similarity_simd(ToF32Vec(call.query),
                                                     ToF32Vec(call.flat)).v
                         ELSE cosine_similarity_scalar(ToF32Vec(call.query),
                                                       ToF32Vec(call.flat)))
    /\ Returned("vector_norm")
          => result = Ok(IF UseVectorized THEN vector_norm_simd(ToF32Vec(call.query))
                         ELSE Norm(ToF32Vec(call.query)))

\* use_simd is set on a machine without AVX2, and vector_norm returned the
\* scalar kernel's value for a vector on which the vectorized kernel gives
\* another one.
C16_ScalarFallbackWithoutAvx2 ==
    /\ Returned("vector_norm")
    /\ config.use_simd
    /\ ~avx2
    /\ result = Ok(Norm(ToF32Vec(call.query)))
    /\ Norm(ToF32Vec(call.query)) # vector_norm_simd(ToF32Vec(call.query))

\* Every f64 component of v is zero: the L2 norm of v is zero (the empty
\* vector included).
HasZeroNorm(v) == \A i \in 1..Len(v) : IsZero(v[i])

\* out is v with every component divided by one finite norm that is not
\* zero, and holds no NaN and no infinity.
IsDividedByNorm(out, v, norm) ==
    /\ norm.k = "fin"
    /\ ~IsZero(norm)
    /\ Len(out) = Len(v)
    /\ \A i \in 1..Len(v) :
          /\ out[i] = F64DivByNorm(v[i], norm)
          /\ out[i].k \notin {"nan", "inf"}

\* C17: normalize_vector fails with ZeroVectorError exactly on the vectors
\* whose L2 norm is zero, the all-zero vectors and the empty one; on every
\* other vector it returns as many components as it was given, each the
\* input component divided by the norm, none a NaN or an infinity.
C17_NormalizeRejectsZeroNormOnly ==
    Returned("normalize_vector")
        => /\ (result = Err(ZeroVectorError)) <=> HasZeroNorm(call.query)
           /\ ~HasZeroNorm(call.query)
                 => /\ result.kind = "ok"
                    /\ IsDividedByNorm(result.value, call.query,
                           vector_norm_internal(config, avx2, ToF32Vec(call.query)))

\* C17 for vectors whose components and whose sum of squares lie in the
\* range of f32: the norm of the f32 copy is neither zero nor infinite.
C17_NormalizeWithinF32Range ==
    (/\ Returned("normalize_vector")
     /\ ~HasZeroNorm(call.query)
     /\ vector_norm_internal(config, avx2, ToF32Vec(call.query)).k = "fin"
     /\ ~IsZero(vector_norm_internal(config, avx2, ToF32Vec(call.query))))
        => /\ result.kind = "ok"
           /\ IsDividedByNorm(result.value, call.query,
                  vector_norm_internal(config, avx2, ToF32Vec(call.query)))

\* C18: cosine_similarity(a, b) and cosine_similarity(b, a) are the same
\* result for all vectors of equal length, with the scalar kernel and with
\* the vectorized one (a NaN both ways is the same result).
C18_CosineSymmetric ==
    (Returned("cosine_similarity") /\ Len(call.query) = Len(call.flat))
        => result = cosine_similarity(config, avx2, call.flat, call.query)

\* The vectorized kernel ran on two different vectors longer than a lane,
\* of different norms, and returned a similarity that is neither 0 nor 1.
C18_TwoVectorsThroughLanes ==
    /\ Returned("cosine_similarity")
    /\ UseVectorized
    /\ Len(call.query) = Len(call.flat)
    /\ Len(call.query) > LaneWidth
    /\ Norm(ToF32Vec(call.query)) # Norm(ToF32Vec(call.flat))
    /\ result.kind = "ok"
    /\ result.value.k = "fin"
    /\ result.value \notin {Zero, One}

\* x is 1.0 within the tolerance 1e-4.
IsNearOne(x) == F32Lt(Abs(F32Sub(x, One)), Tolerance)

\* C19: cosine_similarity(v, v) is 1.0 within tolerance for every vector v
\* with an f64 component that is not zero.
C19_SelfSimilarityIsOne ==
    (/\ Returned("cosine_similarity")
     /\ call.query = call.flat
     /\ ~HasZeroNorm(call.query))
        => (result.kind = "ok" /\ IsNearOne(result.value))

\* C19 for the vectors whose f32 copy has a norm that is neither zero nor
\* infinite in f32.
C19_SelfSimilarityWithinF32Range ==
    (/\ Returned("cosine_similarity")
     /\ call.query = call.flat
     /\ Norm(ToF32Vec(call.query)).k = "fin"
     /\ ~IsZero(Norm(ToF32Vec(call.query))))
        => (result.kind = "ok" /\ IsNearOne(result.value))

\* v and w are the same vector after the conversion of their components
\* to f32.
SameAsF32(v, w) == ToF32Vec(v) = ToF32Vec(w)

\* C20: two vectors that are the same after the conversion from f64 to f32
\* get the same key from create_cache_key.
C20_SameKeyAfterConversion ==
    Returned("create_cache_key")
        => \A w \in Vectors :
              SameAsF32(w, call.query) => Ok(create_cache_key(w)) = result

\* C21: create_cache_key never fails, and the key it returns is a function of
\* the little-endian f64 byte sequence of the vector alone: under every
\* configuration and after every sequence of calls, a vector gets the key of
\* the call exactly when its byte sequence is that of the call's vector,
\* byte sequences of another length included (BLAKE3 taken as
\* collision-free).
C21_KeyIsFunctionOfBytes ==
    Returned("create_cache_key")
        => /\ result.kind = "ok"
           /\ \A w \in Vectors :
                 (LeBytes(w) = LeBytes(call.query))
                    <=> (Ok(create_cache_key(w)) = result)

\* A key was returned for the vector (0.0, 0.0) by an engine that is not
\* configured by default; it is not the key of (0.0), whose bytes are a
\* prefix of its bytes, and not the key of the empty vector.
C21_KeyOfLongerZeroVector ==
    /\ Returned("create_cache_key")
    /\ ~config.use_simd
    /\ ~config.use_parallel
    /\ call.query = <<Zero, Zero>>
    /\ result.kind = "ok"
    /\ result # Ok(create_cache_key(<<Zero>>))
    /\ result # Ok(create_cache_key(<<>>))
    /\ LeBytes(call.query) = [i \in 1..16 |-> 0]

\* The number of vectors of the collection of call c.
VectorsOf(c) == IF c.vector_size = 0 THEN 0 ELSE Len(c.flat) \div c.vector_size

\* What find_similar_vectors does with the outcome o of its batch call.
FindOutcome(cfg, c, o) ==
    IF o.kind = "ok" THEN FindFinish(cfg, o.value, c.paths, c.top_k) ELSE o

\* The results the call c can have on an engine just built with the
\* configuration cfg on the machine hw: one result, unless a load past the
\* end of a slice leaves open what the call computes from.
FreshResults(cfg, hw, c) ==
    IF c.op = "cosine_similarity" THEN {cosine_similarity(cfg, hw, c.query, c.flat)}
    ELSE IF c.op = "batch_cosine_similarity"
         THEN Resolve(batch_sequential(cfg, hw, c.query, c.flat, c.vector_size)[1],
                      VectorsOf(c))
    ELSE IF c.op = "find_similar_vectors"
         THEN (IF FindValidation(c.flat, c.vector_size, c.paths) # NoResult
               THEN {FindValidation(c.flat, c.vector_size, c.paths)}
               ELSE {FindOutcome(cfg, c, o) :
                        o \in Resolve(batch_sequential(cfg, hw, c.query, c.flat,
                                                       c.vector_size)[1],
                                      VectorsOf(c))})
    ELSE IF c.op = "pairwise_distances"
         THEN {pairwise_sequential(cfg, hw, c.flat, c.vector_size)[1]}
    ELSE IF c.op = "normalize_vector" THEN {normalize_vector(cfg, hw, c.query)}
    ELSE IF c.op = "vector_norm" THEN {vector_norm(cfg, hw, c.query)}
    ELSE {Ok(create_cache_key(c.query))}

\* The result of the call that returned is the one result a fresh engine of
\* the same configuration has for the same arguments.
ResultIsFreshResult == pc = "done" => FreshResults(config, avx2, call) = {result}

\* C22: an engine built without a configuration has use_simd = true,
\* use_parallel = true and similarity_threshold = 0.7; no step of any
\* operation changes the configuration; and after any sequence of calls,
\* failed ones included, a call returns the one result that the same call
\* has on a freshly built engine of the same configuration.
C22_ConfigFixedAndCallsRepeat ==
    /\ [](new(NoConfig) = [use_simd |-> TRUE, use_parallel |-> TRUE,
                           similarity_threshold |-> DefaultThreshold])
    /\ [][config' = config]_vars
    /\ []ResultIsFreshResult

\* The call read nothing past the end of a slice: the kernel ran on the
\* scalar path, or on a query no longer than the vectors of the collection.
ReadsWithinSlices ==
    \/ call.op \notin {"batch_cosine_similarity", "find_similar_vectors"}
    \/ ~UseVectorized
    \/ call.vector_size = 0
    \/ (Len(call.query) \div LaneWidth) * LaneWidth <= call.vector_size

\* C22 for the calls that read nothing past the end of a slice.
C22_CallsRepeatWithinSlices ==
    /\ [][config' = config]_vars
    /\ [](ReadsWithinSlices => ResultIsFreshResult)

\* x lies between 0.0 and 1.0, both included.
InUnitInterval(x) == F32Ge(x, Zero) /\ F32Ge(One, x)

\* C23: every SimilarityResult find_similar_vectors returns has a similarity
\* between 0.0 and 1.0 inclusive, for every similarity_threshold between -1
\* and 1.
C23_SimilarityInUnitInterval ==
    (/\ Returned("find_similar_vectors")
     /\ result.kind = "ok"
     /\ F32Ge(config.similarity_threshold, Fin(1, 1, 0))
     /\ F32Ge(One, config.similarity_threshold))
        => \A r \in 1..Len(result.value) : InUnitInterval(result.value[r].similarity)

\* In R entries of equal similarity stand in ascending index, and an entry
\* of sims that qualifies (its position is in Q) but is not in R has a higher
\* index than every entry of R of its similarity.
TiesByAscendingIndex(R, sims, Q) ==
    /\ \A r \in 1..Len(R) : \A q \in 1..Len(R) :
          (r < q /\ R[r].similarity = R[q].similarity) => R[r].index < R[q].index
    /\ \A i \in Q \ Positions(R) : \A r \in 1..Len(R) :
          R[r].similarity = sims[i] => R[r].index + 1 < i

\* What the call returned breaks the ties of the batch outcome b by index,
\* and is what the filter, the sort and the cut make of b.
ReturnedTiesInOrder(b) ==
    b.kind = "ok"
        => /\ TiesByAscendingIndex(result.value, b.value, Qualifying(b.value))
           /\ result = FindFinish(config, b.value, call.paths, call.top_k)

\* C24: find_similar_vectors returns entries of equal similarity in ascending
\* original index, a cut to top_k through a group of equal similarities
\* keeps the entries of the lowest indices, and the result is the one
\* computed from the sequential batch outcome, on the sequential and on the
\* parallel path.
C24_TiesByAscendingIndex ==
    (Returned("find_similar_vectors") /\ result.kind = "ok")
        => ReturnedTiesInOrder(BatchOf)

\* A parallel call cut to top_k = 2 returned the two entries of lowest index
\* of a group of more than two entries of the highest similarity.
C24_TieCutOnParallelPath ==
    /\ Returned("find_similar_vectors")
    /\ TookParallelPath
    /\ result.kind = "ok"
    /\ call.top_k = 2
    /\ Len(result.value) = 2
    /\ result.value[1].similarity = result.value[2].similarity
    /\ result.value[1].index < result.value[2].index
    /\ \E i \in 1..Len(BatchOf.value) :
          /\ i > result.value[2].index + 1
          /\ BatchOf.value[i] = result.value[1].similarity

\* Every component of v is an integer of at most four bits: the products and
\* the sums of the kernels on such vectors are integers below 2^24, which
\* f32 holds exactly.
SmallIntegers(v) == \A i \in 1..Len(v) : v[i] \in {ToF32(IntF(n)) : n \in (-15)..15}

\* The vector of n components that is 1.0 at index i (from 0) and 0.0
\* elsewhere.
OneHot(i, n) == [j \in 1..n |-> IF j = i + 1 THEN One ELSE Zero]

\* The lane loop and the remainder loop of the vectorized cosine kernel on
\* xs and ys, both of length len.
LanesAndRemainder(xs, ys, len) == LaneTotal(xs, ys, len \div LaneWidth, len)

\* Index i of v reaches the accumulation once: through the lane loop when
\* i < 8 * floor(len / 8), through the remainder loop otherwise.
ContributesOnce(v, i) ==
    LanesAndRemainder(OneHot(i, Len(v)), v, Len(v)) =
        IF i < LaneWidth * (Len(v) \div LaneWidth) THEN <<v[i + 1], Zero>>
        ELSE <<Zero, v[i + 1]>>

\* The lane sum and the remainder of xs and ys add up to the scalar
\* kernel's sum.
SumsAgree(xs, ys) ==
    F32Add(LanesAndRemainder(xs, ys, Len(xs))[1], LanesAndRemainder(xs, ys, Len(xs))[2])
        = SumF32(Products(xs, ys, Len(xs)))

\* C25: in the vectorized kernels the lane loop takes the indices below
\* 8 * floor(len / 8) and the remainder pass the indices from there to
\* len - 1, each index once; on vectors of small integers, where f32 is
\* exact, the lane sums plus the remainders are the scalar kernel's dot
\* product and squared norms, and the vectorized norm is the scalar norm,
\* for every len.
C25_LanesAndRemainderCoverOnce ==
    (/\ kernel.simd.kind = "val"
     /\ SmallIntegers(kernel.vec_a)
     /\ SmallIntegers(kernel.vec_b))
        => /\ \A i \in 0..(Len(kernel.vec_a) - 1) :
                 ContributesOnce(kernel.vec_a, i) /\ ContributesOnce(kernel.vec_b, i)
           /\ SumsAgree(kernel.vec_a, kernel.vec_b)
           /\ SumsAgree(kernel.vec_a, kernel.vec_a)
           /\ SumsAgree(kernel.vec_b, kernel.vec_b)
           /\ vector_norm_simd(kernel.vec_a) = Norm(kernel.vec_a)
           /\ vector_norm_simd(kernel.vec_b) = Norm(kernel.vec_b)

\* The vectorized kernel ran on two different vectors of two lanes and one
\* more component: the lane loop and the remainder loop both added to the
\* dot product.
C25_TwoLanesAndRemainder ==
    /\ kernel.simd.kind = "val"
    /\ SmallIntegers(kernel.vec_a)
    /\ SmallIntegers(kernel.vec_b)
    /\ kernel.vec_a # kernel.vec_b
    /\ Len(kernel.vec_a) = 2 * LaneWidth + 1
    /\ ~IsZero(LanesAndRemainder(kernel.vec_a, kernel.vec_b, Len(kernel.vec_a))[1])
    /\ ~IsZero(LanesAndRemainder(kernel.vec_a, kernel.vec_b, Len(kernel.vec_a))[2])

\* The lengths <<len_a, len_b>> of the two slices in each call the operation
\* of c makes to cosine_similarity_internal: none when a validation or a
\* shortcut ends the operation first, or when it works on one slice only.
KernelArgLengths(c) ==
    IF c.op = "cosine_similarity"
    THEN (IF Len(c.query) = Len(c.flat) /\ c.query # <<>>
          THEN {<<Len(c.query), Len(c.flat)>>} ELSE {})
    ELSE IF c.op = "batch_cosine_similarity"
         THEN (IF BatchValidation(c.flat, c.vector_size) = NoResult
               THEN {<<Len(c.query), c.vector_size>>} ELSE {})
    ELSE IF c.op = "find_similar_vectors"
         THEN (IF /\ FindValidation(c.flat, c.vector_size, c.paths) = NoResult
                  /\ BatchValidation(c.flat, c.vector_size) = NoResult
               THEN {<<Len(c.query), c.vector_size>>} ELSE {})
    ELSE IF c.op = "pairwise_distances"
         THEN (IF /\ PairwiseValidation(c.flat, c.vector_size) = NoResult
                  /\ VectorsOf(c) >= 2
               THEN {<<c.vector_size, c.vector_size>>} ELSE {})
    ELSE {}

\* The vectorized kernel on slices of len_a and len_b components reads
\* within both: each load of the lane loop takes 8 components from offset
\* 8 * i, each access of the remainder loop one component at i.
ReadsInBounds(len_a, len_b) ==
    /\ \A i \in 0..((len_a \div LaneWidth) - 1) :
          i * LaneWidth + LaneWidth <= len_a /\ i * LaneWidth + LaneWidth <= len_b
    /\ \A i \in ((len_a \div LaneWidth) * LaneWidth)..(len_a - 1) :
          i < len_a /\ i < len_b

\* C26: in every call of a public operation that reaches the vectorized
\* kernel, the kernel gets two slices of the same length, and every load of
\* 8 components and every access of the remainder loop stays below the
\* length of the slice it reads.
C26_KernelReadsWithinSlices ==
    (pc = "done" /\ UseVectorized)
        => \A l \in KernelArgLengths(call) :
              l[1] = l[2] /\ ReadsInBounds(l[1], l[2])

\* C26 without batch_cosine_similarity and find_similar_vectors: the other
\* operations give the kernel slices of one length.
C26_ReadsWithinSlicesOutsideBatch ==
    (/\ pc = "done"
     /\ UseVectorized
     /\ call.op \notin {"batch_cosine_similarity", "find_similar_vectors"})
        => \A l \in KernelArgLengths(call) :
              l[1] = l[2] /\ ReadsInBounds(l[1], l[2])

\* The entries the threshold filter keeps of the batch outcome b.
KeptOf(b) == FilterByThreshold(b.value, call.paths, config.similarity_threshold)

\* No entry of kept is a NaN, and the comparator of the sort has an answer
\* for every two entries of kept.
SortNeverSeesNaN(kept) ==
    /\ \A i \in 1..Len(kept) : ~IsNaN(kept[i].similarity)
    /\ \A i \in 1..Len(kept) : \A j \in 1..Len(kept) : CmpDesc(kept[i], kept[j]) # "None"

\* C27: whatever the components and the threshold are, NaN and infinities
\* included, every entry of find_similar_vectors whose similarity is a NaN
\* is dropped by the threshold filter, the comparator of the sort is never
\* applied to a NaN, and the call does not panic in the sort.
C27_SortNeverSeesNaN ==
    (Returned("find_similar_vectors") /\ BatchOf.kind = "ok")
        => /\ SortNeverSeesNaN(KeptOf(BatchOf))
           /\ result # Panic
           /\ \A r \in 1..Len(result.value) : ~IsNaN(result.value[r].similarity)

\* The batch outcome held two NaN similarities and the sort ran on two
\* entries that are not: the call returned both.
C27_NaNDroppedBeforeSort ==
    /\ Returned("find_similar_vectors")
    /\ BatchOf.kind = "ok"
    /\ Cardinality({i \in 1..Len(BatchOf.value) : IsNaN(BatchOf.value[i])}) >= 2
    /\ Len(KeptOf(BatchOf)) >= 2
    /\ result.kind = "ok"
    /\ Len(result.value) >= 2

\* The name holds none of the dangerous characters.
HasNoDangerousChar(name) ==
    \A i \in 1..Len(name) : \A k \in 1..Len(dangerous_chars) : name[i] # dangerous_chars[k]

\* The name neither begins nor ends with a dot or a space.
HasCleanEnds(name) ==
    name # <<>> => (name[1] \notin {".", " "} /\ name[Len(name)] \notin {".", " "})

\* C28: for every input sanitize_filename returns a name that is not empty,
\* holds none of / \ : * ? " < > |, neither begins nor ends with a dot or a
\* space, and is left unchanged by sanitize_filename.
C28_SanitizedNameIsClean ==
    Returned("sanitize_filename")
        => /\ result.kind = "ok"
           /\ result.value # <<>>
           /\ HasNoDangerousChar(result.value)
           /\ HasCleanEnds(result.value)
           /\ sanitize_filename(result.value) = result

\* C28 without the ends of the name: the name returned is not empty and
\* holds no dangerous character.
C28_SanitizedNameHasNoDangerousChar ==
    Returned("sanitize_filename")
        => /\ result.kind = "ok"
           /\ result.value # <<>>
           /\ HasNoDangerousChar(result.value)

=============================================================================
